---- MODULE Spec2Model ----
(***************************************************************************)
(* Taking games on hypergraphs: canonical hypergraph form, representative  *)
(* move generation, symmetry detection and the memoising, cancellable      *)
(* nimber evaluator.                                                       *)
(*                                                                         *)
(* Vertex sets (Bitset128) are sets of naturals below 128; vectors are     *)
(* sequences.  The source indexes from 0, sequences from 1: a vector v of  *)
(* the source is the sequence with v[i] stored at position i+1.            *)
(***************************************************************************)
EXTENDS Integers, Sequences, FiniteSets, TLC

(***************************************************************************)
(* Generic helpers on sequences and sets.                                  *)
(***************************************************************************)
Range(s) == {s[i] : i \in DOMAIN s}

MinOf(S) == CHOOSE x \in S : \A y \in S : x <= y

MaxOf(S) == CHOOSE x \in S : \A y \in S : y <= x

\* Bitset128Iter: the elements of a vertex set in ascending order.
iter(S) ==
  [k \in 1..Cardinality(S) |-> CHOOSE x \in S : Cardinality({y \in S : y < x}) = k - 1]

\* Ord for Vec<usize>: lexicographic, a proper prefix is smaller.
LexLess(a, b) ==
  \E k \in 1..(Len(a) + 1) :
     /\ \A j \in 1..(k - 1) : j <= Len(b) /\ a[j] = b[j]
     /\ \/ k > Len(a) /\ k <= Len(b)
        \/ k <= Len(a) /\ k <= Len(b) /\ a[k] < b[k]

\* sort_unstable on a vector of usize: the sorted multiset.
SortNat(s) ==
  [k \in 1..Len(s) |->
     LET i == CHOOSE i \in 1..Len(s) :
                Cardinality({j \in 1..Len(s) : s[j] < s[i] \/ (s[j] = s[i] /\ j < i)}) = k - 1
     IN s[i]]

(***************************************************************************)
(* hypergraph/set.rs                                                       *)
(***************************************************************************)
\* Bitset128::is_flattened: the set is exactly {0, .., k-1}.
is_flattened(S) == S = 0..(Cardinality(S) - 1)

\* Bitset128::apply_node_map: new index i is present iff old index map[i] was.
set_apply_node_map(S, map) == {i \in 0..(Len(map) - 1) : map[i + 1] \in S}

\* Bitset128::partition: the intersections of S with the ranges given by the
\* boundaries parts = <<b0, b1, ..>>.
partition(S, parts) ==
  [p \in 1..(Len(parts) - 1) |-> {v \in S : parts[p] <= v /\ v < parts[p + 1]}]

(***************************************************************************)
(* hypergraph/structured_hypergraph.rs: StructuredHypergraph               *)
(***************************************************************************)
Hypergraph(es, ns, np, ep) ==
  [hyperedges |-> es, nodes |-> ns,
   node_structure_partitions |-> np, edge_structure_partitions |-> ep]

nr_nodes(g) == Len(g.nodes)

\* dual: for every node the ascending list of the (0-based) indices of its edges.
dual(g) ==
  [v \in 1..Len(g.nodes) |->
     iter({i \in 0..(Len(g.hyperedges) - 1) : (v - 1) \in g.hyperedges[i + 1]})]

\* A variant of apply_node_map that keeps the first labels instead of the
\* labels of the vertices that are left.
apply_node_map_truncating(g, map) ==
  [g EXCEPT
     !.hyperedges = [i \in 1..Len(g.hyperedges) |-> set_apply_node_map(g.hyperedges[i], map)],
     !.nodes = SubSeq(g.nodes, 1, Len(map))]

\* An out-of-range read of `nodes` panics in the source; the label -1 marks it.
apply_node_map(g, map) ==
  [g EXCEPT
     !.hyperedges = [i \in 1..Len(g.hyperedges) |-> set_apply_node_map(g.hyperedges[i], map)],
     !.nodes = [i \in 1..Len(map) |->
                  IF map[i] + 1 <= Len(g.nodes) THEN g.nodes[map[i] + 1] ELSE -1]]

apply_edge_map(g, map) ==
  [g EXCEPT !.hyperedges = [i \in 1..Len(map) |-> g.hyperedges[map[i] + 1]]]

flatten_nodes(g) ==
  LET all_nodes == UNION Range(g.hyperedges)
      n == Cardinality(all_nodes)
  IN IF is_flattened(all_nodes)
       THEN [g EXCEPT !.nodes = SubSeq(g.nodes, 1, IF n < Len(g.nodes) THEN n ELSE Len(g.nodes))]
       ELSE apply_node_map(g, iter(all_nodes))

\* Stable sort of the edges by descending cardinality (sort_by_cached_key).
SortBySizeDesc(es) ==
  [k \in 1..Len(es) |->
     LET i == CHOOSE i \in 1..Len(es) :
                Cardinality({j \in 1..Len(es) :
                   \/ Cardinality(es[j]) > Cardinality(es[i])
                   \/ (Cardinality(es[j]) = Cardinality(es[i]) /\ j < i)}) = k - 1
     IN es[i]]

\* A variant of the loop that drops empty and repeated edges only.
RECURSIVE KeepDistinct(_, _, _)
KeepDistinct(es, i, kept) ==
  IF i > Len(es) THEN kept
  ELSE LET e == es[i]
       IN IF e # {} /\ \A k \in 1..Len(kept) : e # kept[k]
            THEN KeepDistinct(es, i + 1, Append(kept, e))
            ELSE KeepDistinct(es, i + 1, kept)

\* The loop of remove_redundant_hyperedges: keep an edge iff it is non-empty
\* and no subset of an edge kept before it.
RECURSIVE KeepMaximal(_, _, _)
KeepMaximal(es, i, kept) ==
  IF i > Len(es) THEN kept
  ELSE LET e == es[i]
       IN IF e # {} /\ \A k \in 1..Len(kept) : ~(e \subseteq kept[k])
            THEN KeepMaximal(es, i + 1, Append(kept, e))
            ELSE KeepMaximal(es, i + 1, kept)

remove_redundant_hyperedges(g) ==
  LET g1 == flatten_nodes(g)
      sorted == SortBySizeDesc(g1.hyperedges)
      new_edges == KeepMaximal(sorted, 1, <<>>)
      g2 == [g1 EXCEPT !.hyperedges = new_edges]
  IN IF Len(sorted) # Len(new_edges) THEN flatten_nodes(g2) ELSE g2

(***************************************************************************)
(* StructuralHypergraphSorter                                              *)
(***************************************************************************)
MAX_ITER == 128

\* get_initial_keys: one key usize::MAX - l per element; only the order of the
\* keys matters, so usize::MAX is represented by USIZE_TOP.
USIZE_TOP == 1000

get_initial_keys(lens) == [i \in 1..Len(lens) |-> <<USIZE_TOP - lens[i]>>]

\* sort_partitions_by_key: every block permutation[partitions[i]..partitions[i+1]]
\* is sorted by the keys of its elements.  slice::sort_unstable_by is an
\* insertion sort on slices of at most 20 elements, so elements with equal keys
\* keep their order.
sort_partitions_by_key(partitions, permutation, keys) ==
  [pos \in 1..Len(permutation) |->
     LET b  == CHOOSE b \in 1..(Len(partitions) - 1) :
                  partitions[b] < pos /\ pos <= partitions[b + 1]
         lo == partitions[b] + 1
         hi == partitions[b + 1]
         i  == CHOOSE i \in lo..hi :
                  Cardinality({j \in lo..hi :
                     \/ LexLess(keys[permutation[j] + 1], keys[permutation[i] + 1])
                     \/ (keys[permutation[j] + 1] = keys[permutation[i] + 1] /\ j < i)})
                  = pos - lo
     IN permutation[i]]

\* refine_partitions_by_key: a boundary wherever two neighbours differ in key.
refine_partitions_by_key(permutation, keys) ==
  Append(iter({0} \cup {i \in 1..(Len(keys) - 1) :
                  keys[permutation[i] + 1] # keys[permutation[i + 1] + 1]}),
         Len(keys))

\* fill_partition_map: position i |-> index of the block that holds it.
fill_partition_map(partitions) ==
  [i \in 1..partitions[Len(partitions)] |->
     Cardinality({p \in 2..Len(partitions) : partitions[p] <= i - 1})]

\* fill_inv_permutation: buff[permutation[i]] = i.
fill_inv_permutation(permutation) ==
  [x \in 1..Len(permutation) |->
     (CHOOSE i \in 1..Len(permutation) : permutation[i] = x - 1) - 1]

\* apply_inv_permutation: buff_out[permutation[i]] = buff_in[i].
apply_inv_permutation(buff_in, permutation) ==
  [x \in 1..Len(buff_in) |->
     buff_in[CHOOSE i \in 1..Len(permutation) : permutation[i] = x - 1]]

\* build_node_keys / build_edge_keys: the sorted keys of the incident elements.
\* A variant of build_node_keys that leaves the keys of a vertex in the order
\* of its edges instead of sorting them.
build_node_keys_unsorted(dl, key_map_buffer) ==
  [v \in 1..Len(dl) |-> [k \in 1..Len(dl[v]) |-> key_map_buffer[dl[v][k] + 1]]]

build_node_keys(dl, key_map_buffer) ==
  [v \in 1..Len(dl) |-> SortNat([k \in 1..Len(dl[v]) |-> key_map_buffer[dl[v][k] + 1]])]

build_edge_keys(es, key_map_buffer) ==
  [i \in 1..Len(es) |->
     LET vs == iter(es[i])
     IN SortNat([k \in 1..Len(vs) |-> key_map_buffer[vs[k] + 1]])]

\* StructuralHypergraphSorter::new
sorter_new(g) ==
  LET dl == dual(g)
  IN [node_map |-> [i \in 1..Len(g.nodes) |-> i - 1],
      edge_map |-> [i \in 1..Len(g.hyperedges) |-> i - 1],
      node_keys |-> get_initial_keys([v \in 1..Len(dl) |-> Len(dl[v])]),
      edge_keys |-> get_initial_keys([i \in 1..Len(g.hyperedges) |->
                                        Cardinality(g.hyperedges[i])]),
      dual |-> dl,
      hypergraph |-> g]

sort_edges(s) ==
  [s EXCEPT !.edge_map =
     sort_partitions_by_key(s.hypergraph.edge_structure_partitions, s.edge_map, s.edge_keys)]

sort_nodes(s) ==
  [s EXCEPT !.node_map =
     sort_partitions_by_key(s.hypergraph.node_structure_partitions, s.node_map, s.node_keys)]

refine_edges(s) ==
  [s EXCEPT !.hypergraph.edge_structure_partitions =
     refine_partitions_by_key(s.edge_map, s.edge_keys)]

refine_nodes(s) ==
  [s EXCEPT !.hypergraph.node_structure_partitions =
     refine_partitions_by_key(s.node_map, s.node_keys)]

partition_count(s) ==
  Len(s.hypergraph.node_structure_partitions) + Len(s.hypergraph.edge_structure_partitions)

\* One round of the loop of build_structural_eq_classes.
RefineRound(s) ==
  LET km1 == apply_inv_permutation(
               fill_partition_map(s.hypergraph.edge_structure_partitions), s.edge_map)
      s1  == refine_nodes(sort_nodes(
               [s EXCEPT !.node_keys = build_node_keys(s.dual, km1)]))
      km2 == apply_inv_permutation(
               fill_partition_map(s1.hypergraph.node_structure_partitions), s1.node_map)
  IN refine_edges(sort_edges(
       [s1 EXCEPT !.edge_keys = build_edge_keys(s1.hypergraph.hyperedges, km2)]))

\* A variant of build_structural_eq_classes that stops after the first round.
build_structural_eq_classes_once(s) == RefineRound(s)

RECURSIVE build_structural_eq_classes(_)
build_structural_eq_classes(s) ==
  LET t == RefineRound(s)
  IN IF partition_count(s) = partition_count(t) THEN t
     ELSE build_structural_eq_classes(t)

\* One round of the loop of sort_canonically.
CanonRound(s) ==
  LET m   == Len(s.edge_map)
      n   == Len(s.node_map)
      ei  == fill_inv_permutation(s.edge_map)
      km1 == [i \in 1..m |-> m - 1 - ei[i]]
      s1  == sort_nodes([s EXCEPT !.node_keys = build_node_keys(s.dual, km1)])
      ni  == fill_inv_permutation(s1.node_map)
      km2 == [i \in 1..n |-> n - 1 - ni[i]]
  IN sort_edges([s1 EXCEPT !.edge_keys = build_edge_keys(s1.hypergraph.hyperedges, km2)])

RECURSIVE sort_canonically(_, _)
sort_canonically(s, round) ==
  IF round >= MAX_ITER THEN s
  ELSE LET t == CanonRound(s)
       IN IF t.node_map = s.node_map /\ t.edge_map = s.edge_map THEN t
          ELSE sort_canonically(t, round + 1)

\* StructuralHypergraphSorter::sort
sort(s) ==
  LET s0 == [s EXCEPT
               !.hypergraph.edge_structure_partitions = <<0, Len(s.hypergraph.hyperedges)>>,
               !.hypergraph.node_structure_partitions = <<0, Len(s.hypergraph.nodes)>>]
      s1 == sort_nodes(sort_edges(s0))
      s2 == sort_canonically(build_structural_eq_classes(s1), 0)
  IN apply_node_map(apply_edge_map(s2.hypergraph, s2.edge_map), s2.node_map)

(***************************************************************************)
(* get_parts, from_hyperedges, minus                                       *)
(***************************************************************************)
\* A variant of Reach that stops at the edges of v itself.
ReachOnce(es, S) ==
  S \cup UNION {es[i] : i \in {j \in 1..Len(es) : es[j] \cap S # {}}}

\* The vertices joined to v by a chain of edges (what the union-find computes).
RECURSIVE Reach(_, _)
Reach(es, S) ==
  LET T == S \cup UNION {es[i] : i \in {j \in 1..Len(es) : es[j] \cap S # {}}}
  IN IF T = S THEN S ELSE Reach(es, T)

\* A variant of get_parts that sorts the whole graph unless it has two
\* components or more.
get_parts_unless_many(g) ==
  LET es  == g.hyperedges
      cmp == [i \in 1..Len(es) |-> Reach(es, {MinOf(es[i])})]
      firsts == iter({i \in 1..Len(es) : \A j \in 1..(i - 1) : cmp[j] # cmp[i]})
      bucket(i) == iter({j \in 1..Len(es) : cmp[j] = cmp[i]})
  IN IF Len(firsts) <= 1 THEN <<sort(sorter_new(g))>>
     ELSE [k \in 1..Len(firsts) |->
             LET b == bucket(firsts[k])
                 part == Hypergraph([x \in 1..Len(b) |-> es[b[x]]], g.nodes, <<>>, <<>>)
             IN sort(sorter_new(flatten_nodes(part)))]

\* get_parts: the edges are grouped by the component of their first vertex and
\* every group is flattened and sorted on its own.  The groups are listed by
\* their smallest edge index; the source lists them in HashMap order.
get_parts(g) ==
  LET es  == g.hyperedges
      cmp == [i \in 1..Len(es) |-> Reach(es, {MinOf(es[i])})]
      firsts == iter({i \in 1..Len(es) : \A j \in 1..(i - 1) : cmp[j] # cmp[i]})
      bucket(i) == iter({j \in 1..Len(es) : cmp[j] = cmp[i]})
  IN IF Len(firsts) = 1 THEN <<sort(sorter_new(g))>>
     ELSE [k \in 1..Len(firsts) |->
             LET b == bucket(firsts[k])
                 part == Hypergraph([x \in 1..Len(b) |-> es[b[x]]], g.nodes, <<>>, <<>>)
             IN sort(sorter_new(flatten_nodes(part)))]

from_hyperedges_with_nodes(hyperedges, nodes) ==
  get_parts(remove_redundant_hyperedges(Hypergraph(hyperedges, nodes, <<>>, <<>>)))

from_hyperedges(hyperedges) ==
  LET used == UNION Range(hyperedges)
      max_node == IF used = {} THEN 0 ELSE MaxOf(used) + 1
  IN from_hyperedges_with_nodes(hyperedges, [i \in 1..max_node |-> i - 1])

\* A variant of minus that numbers the remaining vertices afresh.
minus_relabelled(g, removed) ==
  from_hyperedges([i \in 1..Len(g.hyperedges) |-> g.hyperedges[i] \ removed])

minus(g, removed) ==
  from_hyperedges_with_nodes(
    [i \in 1..Len(g.hyperedges) |-> g.hyperedges[i] \ removed], g.nodes)

\* The reads of get_parts (union-find of nodes.len() entries) and of
\* apply_node_map (old_nodes[old_idx]) that fall outside `nodes`: they panic.
index_out_of_bounds(hyperedges, nodes) ==
  \E v \in UNION Range(hyperedges) : v >= Len(nodes)

\* A variant of get_node_partitions that puts every node in a block of its own.
get_node_partitions_apart(g) == [i \in 1..(nr_nodes(g) + 1) |-> i - 1]

get_node_partitions(g) == g.node_structure_partitions

get_edge_partitions(g) == g.edge_structure_partitions

(***************************************************************************)
(* hypergraph/set.rs (Bitset128), taking_game/mod.rs and builder/mod.rs    *)
(***************************************************************************)
BITS == 128

\* insert computes `1 << value` on a u128: for value >= 128 the shift
\* overflows, which panics in a build with overflow checks and takes the
\* shift amount modulo 128 in a build without them.
shift_overflows(vec) == \E v \in vec : v >= BITS

from_slice(vec) == {v % BITS : v \in vec}

from_hyperesges(edges) ==
  from_hyperedges([i \in 1..Len(edges) |-> from_slice(edges[i])])

build(hyperedges) == from_hyperesges(hyperedges)

\* build_one applied to the list `games` that build returned: a stable sort by
\* nr_nodes and a pop, that is the last of the largest games (none: <<>>).
build_one(games) ==
  IF games = <<>> THEN <<>>
  ELSE LET largest == {i \in 1..Len(games) :
                         \A j \in 1..Len(games) : nr_nodes(games[j]) <= nr_nodes(games[i])}
       IN <<games[MaxOf(largest)]>>

(***************************************************************************)
(* taking_game/impartial.rs: the representative moves                      *)
(***************************************************************************)
\* A variant of nodes_to_remove_in_part that takes nothing or the whole block.
nodes_to_remove_none_or_all(part) == <<{}, part>>

\* The removal choices inside one block of an edge: nothing first, then the
\* block without its j largest vertices (j descending from the pops), and the
\* whole block last.
\* A variant of nodes_to_remove_in_part without the final swap: the whole
\* block comes first and nothing comes last.
nodes_to_remove_in_part_unswapped(part) ==
  LET vs == iter(part)
      k  == Len(vs)
  IN [j \in 1..(k + 1) |-> {vs[x] : x \in 1..(k - (j - 1))}]

nodes_to_remove_in_part(part) ==
  LET vs == iter(part)
      k  == Len(vs)
  IN [j \in 1..(k + 1) |->
        IF j = 1 THEN {}
        ELSE IF j = k + 1 THEN part
        ELSE {vs[x] : x \in 1..(k - (j - 1))}]

\* multi_cartesian_product followed by the union of every tuple; the last
\* factor varies fastest.
RECURSIVE cartesian_unions(_, _)
cartesian_unions(opts, i) ==
  IF i > Len(opts) THEN <<{}>>
  ELSE LET rest == cartesian_unions(opts, i + 1)
           n    == Len(rest)
       IN [k \in 1..(Len(opts[i]) * n) |->
             opts[i][((k - 1) \div n) + 1] \cup rest[((k - 1) % n) + 1]]

\* A variant of removal_masks that keeps the first (empty) tuple.
removal_masks_unskipped(g, hyperedge) ==
  LET parts == partition(g.hyperedges[hyperedge + 1], get_node_partitions(g))
      opts  == [p \in 1..Len(parts) |-> nodes_to_remove_in_part(parts[p])]
  IN cartesian_unions(opts, 1)

\* The removal masks of get_moves_of_edge: every tuple but the first (empty) one.
removal_masks(g, hyperedge) ==
  LET parts == partition(g.hyperedges[hyperedge + 1], get_node_partitions(g))
      opts  == [p \in 1..Len(parts) |-> nodes_to_remove_in_part(parts[p])]
  IN Tail(cartesian_unions(opts, 1))

with_nodes_removed(g, mask) == minus(g, mask)

get_moves_of_edge(g, hyperedge) ==
  LET masks == removal_masks(g, hyperedge)
  IN [k \in 1..Len(masks) |-> with_nodes_removed(g, masks[k])]

RECURSIVE FlatMap(_, _)
FlatMap(ss, i) == IF i > Len(ss) THEN <<>> ELSE ss[i] \o FlatMap(ss, i + 1)

\* A variant of get_split_moves that plays on the first edge only.
get_split_moves_of_first_edge(g) ==
  IF nr_nodes(g) = 0 THEN <<>> ELSE get_moves_of_edge(g, 0)

\* A variant of get_split_moves that plays on every edge.
get_split_moves_of_every_edge(g) ==
  IF nr_nodes(g) = 0 THEN <<>>
  ELSE FlatMap([e \in 1..Len(g.hyperedges) |-> get_moves_of_edge(g, e - 1)], 1)

\* One representative edge (the first) of every edge-partition block.
get_split_moves(g) ==
  IF nr_nodes(g) = 0 THEN <<>>
  ELSE LET ep == get_edge_partitions(g)
       IN FlatMap([b \in 1..(Len(ep) - 1) |-> get_moves_of_edge(g, ep[b])], 1)

(***************************************************************************)
(* taking_game/symmetries.rs                                               *)
(***************************************************************************)
NoneNode == -1

NoSymmetry == [found |-> FALSE, map |-> <<>>]

\* A variant of get_neighbourhoods that stops at the first edge of a node.
get_neighbourhoods_of_first_edge(g) ==
  [v \in 1..nr_nodes(g) |->
     LET at == {j \in 1..Len(g.hyperedges) : (v - 1) \in g.hyperedges[j]}
     IN IF at = {} THEN {} ELSE g.hyperedges[MinOf(at)]]

get_neighbourhoods(g) ==
  [v \in 1..nr_nodes(g) |->
     UNION {g.hyperedges[i] : i \in {j \in 1..Len(g.hyperedges) : (v - 1) \in g.hyperedges[j]}}]

\* A variant of is_valid_match that accepts a candidate sharing an edge with
\* the node.
is_valid_match_among_neighbours(node, candidate, symmetries, neighbourhoods) ==
  /\ node # candidate
  /\ symmetries[candidate + 1] = NoneNode
  /\ \A neighbour \in neighbourhoods[node + 1] :
        symmetries[neighbour + 1] # NoneNode
          => symmetries[neighbour + 1] \in neighbourhoods[candidate + 1]

is_valid_match(node, candidate, symmetries, neighbourhoods) ==
  /\ node # candidate
  /\ symmetries[candidate + 1] = NoneNode
  /\ candidate \notin neighbourhoods[node + 1]
  /\ \A neighbour \in neighbourhoods[node + 1] :
        symmetries[neighbour + 1] # NoneNode
          => symmetries[neighbour + 1] \in neighbourhoods[candidate + 1]

find_valid_candidates(g, node, symmetries, neighbourhoods) ==
  LET np == get_node_partitions(g)
      b  == CHOOSE b \in 1..(Len(np) - 1) : np[b] <= node /\ node < np[b + 1]
  IN iter({cand \in np[b]..(np[b + 1] - 1) :
             is_valid_match(node, cand, symmetries, neighbourhoods)})

RECURSIVE generate_symmetry_from_sets_of_candidates(_, _, _)
RECURSIVE TryCandidates(_, _, _, _, _, _)
generate_symmetry_from_sets_of_candidates(g, symmetries, neighbourhoods) ==
  IF \E i \in 1..Len(symmetries) : symmetries[i] = NoneNode
    THEN LET node == MinOf({i \in 1..Len(symmetries) : symmetries[i] = NoneNode}) - 1
         IN TryCandidates(g, symmetries, neighbourhoods, node,
                          find_valid_candidates(g, node, symmetries, neighbourhoods), 1)
    ELSE [found |-> TRUE, map |-> symmetries]

TryCandidates(g, symmetries, neighbourhoods, node, candidates, k) ==
  IF k > Len(candidates) THEN NoSymmetry
  ELSE LET cand   == candidates[k]
           paired == [symmetries EXCEPT ![node + 1] = cand, ![cand + 1] = node]
           result == generate_symmetry_from_sets_of_candidates(g, paired, neighbourhoods)
       IN IF result.found THEN result
          ELSE TryCandidates(g, symmetries, neighbourhoods, node, candidates, k + 1)

BlocksEven(parts) == \A b \in 1..(Len(parts) - 1) : (parts[b + 1] - parts[b]) % 2 = 0

find_symmetry(g) ==
  IF /\ nr_nodes(g) % 2 = 0
     /\ Len(g.hyperedges) % 2 = 0
     /\ BlocksEven(get_edge_partitions(g))
     /\ BlocksEven(get_node_partitions(g))
    THEN generate_symmetry_from_sets_of_candidates(
           g, [v \in 1..nr_nodes(g) |-> NoneNode], get_neighbourhoods(g))
    ELSE NoSymmetry

get_max_nimber(g) == IF find_symmetry(g).found THEN 0 ELSE nr_nodes(g)

(***************************************************************************)
(* The game itself: Sprague-Grundy values by the definition of the game    *)
(* (a move removes a non-empty subset of one hyperedge), computed on the   *)
(* plain set of edges without any canonical form.                          *)
(***************************************************************************)
RECURSIVE Xor(_, _)
Xor(a, b) ==
  IF a = 0 THEN b
  ELSE IF b = 0 THEN a
  ELSE (((a % 2) + (b % 2)) % 2) + (2 * Xor(a \div 2, b \div 2))

\* A variant of the mex: one above the largest value.
MexAboveLargest(S) == IF S = {} THEN 0 ELSE MaxOf(S) + 1

Mex(S) == MinOf({n \in 0..Cardinality(S) : n \notin S})

LegalRemovals(E) == UNION {SUBSET e \ {{}} : e \in E}

RemoveFrom(E, R) == {e \ R : e \in E} \ {{}}

RECURSIVE Grundy(_)
Grundy(E) == Mex({Grundy(RemoveFrom(E, R)) : R \in LegalRemovals(E)})

GrundyOf(g) == Grundy(Range(g.hyperedges))

RECURSIVE XorOver(_, _, _)
XorOver(f, ps, i) == IF i > Len(ps) THEN 0 ELSE Xor(f[i], XorOver(f, ps, i + 1))

\* The Grundy value of a multiset of positions.
GrundyOfParts(ps) == XorOver([i \in 1..Len(ps) |-> GrundyOf(ps[i])], ps, 1)

(***************************************************************************)
(* builder/mod.rs: the game families used as inputs                        *)
(***************************************************************************)
heap(size) == <<0..(size - 1)>>

kayles(size) ==
  IF size = 0 THEN <<{}>>
  ELSE IF size = 1 THEN <<{0}>>
  ELSE [i \in 1..(size - 1) |-> {i - 1, i}]

unit == <<{0}>>

get_max_node(hyperedges) ==
  IF UNION Range(hyperedges) = {} THEN 0 ELSE MaxOf(UNION Range(hyperedges))

\* extrude: the edges as they are, then l shifted copies of every edge, then
\* one edge through the l copies of every node.
extrude(hyperedges, l) ==
  LET shift == get_max_node(hyperedges) + 1
      copies == [k \in 1..(Len(hyperedges) * l) |->
                   {v + (((k - 1) % l) * shift) : v \in hyperedges[((k - 1) \div l) + 1]}]
      lines == [n \in 1..shift |-> {(n - 1) + (offset * shift) : offset \in 0..(l - 1)}]
  IN hyperedges \o copies \o lines

RECURSIVE extrude_each(_, _, _)
extrude_each(g, lengths, i) ==
  IF i > Len(lengths) THEN g ELSE extrude_each(extrude(g, lengths[i]), lengths, i + 1)

hyper_cuboid(lengths) ==
  IF 0 \in Range(lengths) THEN <<{}>> ELSE extrude_each(unit, lengths, 1)

rect(x, y) == hyper_cuboid(<<x, y>>)

hyper_cube(dim, l) == hyper_cuboid([i \in 1..dim |-> l])

\* fully_connect: the edges of self, the shifted edges of other, then an edge
\* for every node of self with every node of other.
fully_connect(hyperedges, other) ==
  LET self_nodes == iter(UNION Range(hyperedges))
      other_nodes == iter(UNION Range(other))
      shift == get_max_node(hyperedges) + 1
      shifted == [k \in 1..Len(other) |-> {n + shift : n \in other[k]}]
      pairs == [k \in 1..(Len(self_nodes) * Len(other_nodes)) |->
                  {self_nodes[((k - 1) \div Len(other_nodes)) + 1],
                   other_nodes[((k - 1) % Len(other_nodes)) + 1] + shift}]
  IN hyperedges \o shifted \o pairs

connect_unit_to_all(hyperedges) == fully_connect(hyperedges, unit)

RECURSIVE hyper_tetrahedron(_)
hyper_tetrahedron(dim) ==
  IF dim = 0 THEN unit ELSE connect_unit_to_all(hyper_tetrahedron(dim - 1))

(***************************************************************************)
(* Bounds of the model.                                                    *)
(***************************************************************************)
\* Vertex labels of raw inputs are drawn from 0..MaxLabel-1.
MaxLabel == 5

\* Largest heap and longest Kayles chain among the inputs.
MaxHeap == 3

MaxKayles == 4

\* Moves are tried on the first MaxEdges hyperedges and the first MaxNodes
\* vertices of a position.
MaxEdges == 4

MaxNodes == 6

\* Number of nimber queries made on one evaluator.
MaxQueries == 2

\* Construction: the vertex indices 0..MaxBuildLabel-1 and the length of the
\* edge lists built from them.
MaxBuildLabel == 3

MaxBuildEdges == 3

\* The tests of tests/nimber.rs: heaps of 1..MaxTestHeap tokens, Kayles
\* chains of up to MaxTestKayles vertices, grids of side 2..MaxTestGrid.
MaxTestHeap == 6

MaxTestKayles == 15

MaxTestGrid == 4

\* The largest number of vertices of a game find_symmetry is tested on.
MaxTestNodes == 49

(***************************************************************************)
(* State.                                                                  *)
(*   input, orig       the raw hyperedge list handed to from_hyperedges    *)
(*                     and the list it was derived from by relabelling     *)
(*   parts, origParts  the positions returned for input and for orig       *)
(*   pos               the position under play                             *)
(*   op                the last operation applied to pos                   *)
(*   edge, removed     the hyperedge and the vertices of the last minus    *)
(*   succ              the components returned by the last minus           *)
(*   sym               the result of the last find_symmetry                *)
(*   value             the result of the last evaluation step              *)
(*   cache, cancel     the evaluator's memo table and its cancel flag      *)
(*   stack, ret        the evaluator's call stack and the value returned   *)
(*                     by the call that finished last                      *)
(*   asked             the number of top-level calls made so far           *)
(*   trail             what the properties need to know of the last call   *)
(*                     and of the call before it                           *)
(*   labels            the node labels handed to the last construction     *)
(*   call, outcome     the last construction call and how it ended: "ok"   *)
(*                     with the positions in parts, or "panic"             *)
(*   test              the edge lists a test of tests/nimber.rs asks the   *)
(*                     evaluator about, in order                           *)
(***************************************************************************)
VARIABLES input, orig, parts, origParts,
          pos, op, edge, removed, succ, sym, value,
          cache, cancel, stack, ret, asked, trail,
          labels, call, outcome,
          test

canonVars == <<input, orig, parts, origParts>>

gameVars == <<pos, op, edge, removed, succ, sym, value>>

evalVars == <<cache, cancel, stack, ret, asked, trail>>

buildVars == <<labels, call, outcome>>

vars == <<input, orig, parts, origParts,
          pos, op, edge, removed, succ, sym, value,
          cache, cancel, stack, ret, asked, trail,
          labels, call, outcome,
          test>>

NoPosition == Hypergraph(<<>>, <<>>, <<>>, <<>>)

NoResult == [state |-> "idle", some |-> FALSE, nimber |-> 0]

NoTrail == [flagAtEntry |-> FALSE, depth |-> -1, steps |-> 0,
            entryCancelled |-> FALSE, entryResult |-> "idle",
            prevArg |-> <<>>, prevRet |-> NoResult, cacheAtEntry |-> {}]

GameIdle ==
  /\ pos = NoPosition /\ op = "none" /\ edge = 0 /\ removed = {}
  /\ succ = <<>> /\ sym = NoSymmetry /\ value = <<>>

EvalFresh ==
  /\ cache = {} /\ cancel = FALSE /\ stack = <<>> /\ ret = NoResult
  /\ asked = 0 /\ trail = NoTrail

BuildIdle == labels = <<>> /\ call = "none" /\ outcome = "none"

NoTest == test = <<>>

\* get_parts lists the components in the iteration order of a HashMap, which
\* is not determined by the input: any order of the components can come out.
RECURSIVE Orders(_)
Orders(ps) ==
  IF Len(ps) <= 1 THEN {ps}
  ELSE UNION {{<<ps[i]>> \o rest :
                 rest \in Orders([k \in 1..(Len(ps) - 1) |->
                                    IF k < i THEN ps[k] ELSE ps[k + 1]])} :
              i \in 1..Len(ps)}

(***************************************************************************)
(* Construction: the same hypergraph handed over under different labels    *)
(* and edge orders.                                                        *)
(***************************************************************************)
CanonInputs ==
  {kayles(n) : n \in 2..MaxKayles}
    \cup {heap(MaxHeap)}
    \cup {<<{0, 1}, {1, 2}, {3, 4}>>,            \* two components
          <<{4, 3}, {3, 2}, {4}, {2, 3}>>,       \* redundant edges
          <<{0, 1}, {2, 3}, {0, 2}, {1, 3}>>,    \* the 2 x 2 grid
          <<{0, 1}, {1, 2}, {2, 3}, {3, 4}, {0, 4}>>,   \* the 5-cycle
          <<{0, 1}, {0, 2}, {1, 3}, {0, 3, 4}>>} \* all vertices distinguishable

InitCanon ==
  /\ input \in CanonInputs
  /\ orig = input
  /\ \E ps \in {from_hyperedges(input)} : parts \in Orders(ps)
  /\ origParts = parts
  /\ GameIdle /\ EvalFresh /\ BuildIdle /\ NoTest

SwapLabels(S, a, b) ==
  {IF v = a THEN b ELSE IF v = b THEN a ELSE v : v \in S}

\* The caller renames the vertices a and b and builds the positions again.
Relabel(a, b) ==
  /\ LET renamed == [i \in 1..Len(input) |-> SwapLabels(input[i], a, b)]
     IN /\ renamed # input
        /\ input' = renamed
        /\ \E ps \in {from_hyperedges(renamed)} : parts' \in Orders(ps)
  /\ UNCHANGED <<orig, origParts>>
  /\ UNCHANGED gameVars /\ UNCHANGED evalVars /\ UNCHANGED buildVars /\ UNCHANGED test

\* The caller exchanges two neighbouring edges and builds the positions again.
Reorder(i) ==
  /\ i < Len(input)
  /\ input[i] # input[i + 1]
  /\ LET moved == [input EXCEPT ![i] = input[i + 1], ![i + 1] = input[i]]
     IN /\ input' = moved
        /\ \E ps \in {from_hyperedges(moved)} : parts' \in Orders(ps)
  /\ UNCHANGED <<orig, origParts>>
  /\ UNCHANGED gameVars /\ UNCHANGED evalVars /\ UNCHANGED buildVars /\ UNCHANGED test

NextCanon ==
  \/ \E a \in 0..(MaxLabel - 2) : Relabel(a, a + 1)
  \/ \E i \in 1..MaxLabel : Reorder(i)

SpecCanon == InitCanon /\ [][NextCanon]_vars

(***************************************************************************)
(* Properties of the construction.                                         *)
(***************************************************************************)
Occurrences(ps, es) == Cardinality({i \in 1..Len(ps) : ps[i].hyperedges = es})

\* The two lists hold the same canonical edge lists, order of components aside.
SameComponents(ps, qs) ==
  /\ Len(ps) = Len(qs)
  /\ \A i \in 1..Len(ps) :
       Occurrences(ps, ps[i].hyperedges) = Occurrences(qs, ps[i].hyperedges)

\* Building a position again from a canonical position returns that position.
Recanonicalized(ps) ==
  \A i \in 1..Len(ps) :
    LET again == minus(ps[i], {})
    IN /\ Len(again) = 1
       /\ Head(again).hyperedges = ps[i].hyperedges
       /\ Head(again).node_structure_partitions = ps[i].node_structure_partitions
       /\ Head(again).edge_structure_partitions = ps[i].edge_structure_partitions

\* Colour refinement told every vertex of every component apart.
AllNodesDistinguished(ps) ==
  \A i \in 1..Len(ps) :
    Len(ps[i].node_structure_partitions) = nr_nodes(ps[i]) + 1

RECURSIVE TotalNodes(_, _)
TotalNodes(ps, i) ==
  IF i > Len(ps) THEN 0 ELSE nr_nodes(ps[i]) + TotalNodes(ps, i + 1)

GameInputs ==
  {heap(n) : n \in 1..MaxHeap}
    \cup {kayles(n) : n \in 2..MaxKayles}
    \cup {<<{0, 1}, {2, 3}, {0, 2}, {1, 3}>>,
          <<{0, 1, 2}, {2, 3}>>,
          <<{0, 3, 4}, {0, 1, 2}, {1, 2, 3, 4}>>,
          <<{2, 4, 5}, {1, 3, 5}, {0, 3, 4}, {0, 1, 2}>>}

InitGame ==
  /\ input \in GameInputs
  /\ orig = input
  /\ \E ps \in {from_hyperedges(input)} : parts \in Orders(ps)
  /\ origParts = parts
  /\ pos \in Range(parts)
  /\ op = "new" /\ edge = 0 /\ removed = {}
  /\ succ = <<>> /\ sym = NoSymmetry /\ value = <<>>
  /\ EvalFresh /\ BuildIdle /\ NoTest

\* A player removes the vertices R from the hyperedge e of the position.
Minus(e, R) ==
  /\ e \in 1..Len(pos.hyperedges)
  /\ R # {} /\ R \subseteq pos.hyperedges[e]
  /\ \E ps \in {minus(pos, R)} : succ' \in Orders(ps)
  /\ edge' = e /\ removed' = R
  /\ op' = "minus"
  /\ sym' = NoSymmetry /\ value' = <<>>
  /\ UNCHANGED pos
  /\ UNCHANGED canonVars /\ UNCHANGED evalVars /\ UNCHANGED buildVars /\ UNCHANGED test

\* Play goes on in one of the components the move left.
Play(k) ==
  /\ op = "minus"
  /\ k \in 1..Len(succ)
  /\ pos' = succ[k]
  /\ op' = "play"
  /\ edge' = 0 /\ removed' = {} /\ succ' = <<>>
  /\ UNCHANGED <<sym, value>>
  /\ UNCHANGED canonVars /\ UNCHANGED evalVars /\ UNCHANGED buildVars /\ UNCHANGED test

\* The evaluator asks for a symmetry of the position.
FindSymmetry ==
  /\ op # "find_symmetry"
  /\ \E r \in {find_symmetry(pos)} : sym' = r
  /\ op' = "find_symmetry"
  /\ edge' = 0 /\ removed' = {} /\ succ' = <<>> /\ value' = <<>>
  /\ UNCHANGED pos
  /\ UNCHANGED canonVars /\ UNCHANGED evalVars /\ UNCHANGED buildVars /\ UNCHANGED test

\* The evaluator asks for the representative successors of the position.
SplitMoves ==
  /\ op # "get_split_moves"
  /\ \E m \in {get_split_moves(pos)} : value' = m
  /\ op' = "get_split_moves"
  /\ edge' = 0 /\ removed' = {} /\ succ' = <<>> /\ sym' = NoSymmetry
  /\ UNCHANGED pos
  /\ UNCHANGED canonVars /\ UNCHANGED evalVars /\ UNCHANGED buildVars /\ UNCHANGED test

NextGame ==
  \/ \E e \in 1..MaxEdges : \E R \in SUBSET (0..(MaxNodes - 1)) : Minus(e, R)
  \/ \E k \in 1..MaxNodes : Play(k)
  \/ FindSymmetry
  \/ SplitMoves

SpecGame == InitGame /\ [][NextGame]_vars

(***************************************************************************)
(* Properties of the moves and of the symmetry.                            *)
(***************************************************************************)
\* All legal successors of a position: H.minus(R) for every hyperedge e and
\* every non-empty R within e.
AllSuccessors(g) ==
  {minus(g, R) : R \in LegalRemovals(Range(g.hyperedges))}

\* C2: the mex over the nimbers of the representative successors returned by
\* get_split_moves equals the mex over the nimbers of all legal successors,
\* the nimber of a successor being the XOR of the Sprague-Grundy values of its
\* components.
C2_MexSoundness ==
  op = "get_split_moves"
    => Mex({GrundyOfParts(mv) : mv \in Range(value)})
         = Mex({GrundyOfParts(mv) : mv \in AllSuccessors(pos)})

\* The block of the partition (given by its boundaries) that holds index i.
BlockOf(bounds, i) ==
  CHOOSE b \in 1..(Len(bounds) - 1) : bounds[b] <= i /\ i < bounds[b + 1]

\* The removal with the same number of vertices per node block as R that
\* get_moves_of_edge generates: the lowest vertices of each block of the edge.
RepresentativeRemoval(g, e, R) ==
  LET blocks == partition(g.hyperedges[e], get_node_partitions(g))
  IN UNION {LET vs == iter(blocks[b])
                c  == Cardinality(R \cap blocks[b])
            IN {vs[x] : x \in 1..c} : b \in 1..Len(blocks)}

\* The first edge of the edge block of e, the one get_split_moves plays on.
RepresentativeEdge(g, e) ==
  get_edge_partitions(g)[BlockOf(get_edge_partitions(g), e - 1)] + 1

\* C3: removing R from the edge e gives the same multiset of canonical
\* positions as the removal with the same count per node block, and the same
\* as some removal within the first edge of the edge block of e.
C3_CountsPerBlock ==
  op = "minus"
    => /\ SameComponents(succ, minus(pos, RepresentativeRemoval(pos, edge, removed)))
       /\ \E R2 \in (SUBSET pos.hyperedges[RepresentativeEdge(pos, edge)]) \ {{}} :
            SameComponents(succ, minus(pos, R2))

SymmetryFound == op = "find_symmetry" /\ sym.found

Sigma(v) == sym.map[v + 1]

\* C4: a position for which find_symmetry returns a mapping has
\* Sprague-Grundy value 0.
C4_SymmetryImpliesZero ==
  SymmetryFound => GrundyOf(pos) = 0

\* C5: a mapping returned by find_symmetry is a fixed-point-free involution
\* on the vertices and maps no vertex to a vertex of one of its own edges.
C5_Involution ==
  SymmetryFound
    => /\ Len(sym.map) = nr_nodes(pos)
       /\ \A v \in 0..(nr_nodes(pos) - 1) :
            /\ Sigma(v) \in 0..(nr_nodes(pos) - 1)
            /\ Sigma(v) # v
            /\ Sigma(Sigma(v)) = v
            /\ \A e \in Range(pos.hyperedges) : v \in e => Sigma(v) \notin e

\* find_symmetry returned a mapping for a position of four vertices or more.
C5_Witness ==
  SymmetryFound /\ nr_nodes(pos) >= 4 /\ Len(sym.map) = nr_nodes(pos)

\* C6: a mapping returned by find_symmetry maps every edge onto an edge.
C6_Automorphism ==
  SymmetryFound
    => \A e \in Range(pos.hyperedges) :
         {Sigma(v) : v \in e} \in Range(pos.hyperedges)

(***************************************************************************)
(* The evaluator (the external crate `evaluator`; its algorithm is the one *)
(* the specification gives in section 4.6): a memo table, a cancel flag,   *)
(* and the recursion nimber(multiset) -> nimber(component) ->              *)
(* nimber(successor multiset), kept here as an explicit call stack.        *)
(*                                                                         *)
(* A frame is one call of nimber on a multiset of positions:               *)
(*   arg    the multiset                                                   *)
(*   pc     "entry"  the call has just been made                           *)
(*          "sum"    step 3, the call recurses on its components           *)
(*          "mex"    step 4, the call recurses on the successors           *)
(*          "none"   a recursive call returned none                        *)
(*   moves  the successor multisets (step 4)                               *)
(*   i      the next component or successor to recurse on                  *)
(*   acc    the XOR of the components' nimbers so far (step 3)             *)
(*   seen   the set of the successors' nimbers so far (step 4)             *)
(***************************************************************************)
Some(n) == [state |-> "done", some |-> TRUE, nimber |-> n]

None == [state |-> "done", some |-> FALSE, nimber |-> 0]

Running == [state |-> "running", some |-> FALSE, nimber |-> 0]

Frame(arg) ==
  [arg |-> arg, pc |-> "entry", moves |-> <<>>, i |-> 1, acc |-> 0, seen |-> {}]

\* A variant of eq that compares the labels as well.
eq_with_labels(g, h) == g.hyperedges = h.hyperedges /\ g.nodes = h.nodes

\* Two positions are equal (and hash alike) when their hyperedge lists are:
\* PartialEq and Hash of StructuredHypergraph look at `hyperedges` only.
eq(g, h) == g.hyperedges = h.hyperedges

Cached(H) == \E c \in cache : eq(c.key, H)

\* A variant of the insertion that keeps the newest entry only.
InsertOverwriting(c, H, n) == {[key |-> H, nimber |-> n]}

\* The memo table c with the nimber n stored for the position H; an entry
\* whose key equals H keeps its key and takes the new nimber.
Insert(c, H, n) ==
  IF \E e \in c : eq(e.key, H)
    THEN {[e EXCEPT !.nimber = IF eq(e.key, H) THEN n ELSE e.nimber] : e \in c}
    ELSE c \cup {[key |-> H, nimber |-> n]}

CachedNimber(H) == (CHOOSE c \in cache : eq(c.key, H)).nimber

\* A variant of the entry that looks at the flag after the empty check.
EntryResultEmptyFirst(f, cancelled) ==
  IF f.arg = <<>> THEN "zero"
  ELSE IF cancelled THEN "none"
  ELSE IF Len(f.arg) > 1 THEN "sum"
  ELSE IF Cached(Head(f.arg)) THEN "hit"
  ELSE IF get_max_nimber(Head(f.arg)) = 0 THEN "symmetric"
  ELSE "mex"

\* A variant of the entry that looks into the cache before it reads the flag.
EntryResultHitFirst(f, cancelled) ==
  IF Len(f.arg) = 1 /\ Cached(Head(f.arg)) THEN "hit"
  ELSE IF cancelled THEN "none"
  ELSE IF f.arg = <<>> THEN "zero"
  ELSE IF Len(f.arg) > 1 THEN "sum"
  ELSE IF get_max_nimber(Head(f.arg)) = 0 THEN "symmetric"
  ELSE "mex"

\* What a call does on entry, given the flag it reads: step 1, step 2, and
\* the choice between step 3 and the cases of step 4.
EntryResult(f, cancelled) ==
  IF cancelled THEN "none"
  ELSE IF f.arg = <<>> THEN "zero"
  ELSE IF Len(f.arg) > 1 THEN "sum"
  ELSE IF Cached(Head(f.arg)) THEN "hit"
  ELSE IF get_max_nimber(Head(f.arg)) = 0 THEN "symmetric"
  ELSE "mex"

\* The caller's frame after the call it made returned v: a none propagates,
\* a number is folded into the XOR or added to the set of successor nimbers.
\* A variant that adds the components' nimbers instead of XOR-ing them.
ResumeAdding(f, v) ==
  IF ~v.some THEN [f EXCEPT !.pc = "none"]
  ELSE IF f.pc = "sum"
    THEN [f EXCEPT !.i = f.i + 1, !.acc = f.acc + v.nimber]
    ELSE [f EXCEPT !.i = f.i + 1, !.seen = f.seen \cup {v.nimber}]

Resume(f, v) ==
  IF ~v.some THEN [f EXCEPT !.pc = "none"]
  ELSE IF f.pc = "sum"
    THEN [f EXCEPT !.i = f.i + 1, !.acc = Xor(f.acc, v.nimber)]
    ELSE [f EXCEPT !.i = f.i + 1, !.seen = f.seen \cup {v.nimber}]

\* The call on top of the stack returns v.
Return(v) ==
  LET rest == SubSeq(stack, 1, Len(stack) - 1)
  IN IF rest = <<>>
       THEN /\ stack' = <<>>
            /\ ret' = v
       ELSE /\ stack' = [rest EXCEPT ![Len(rest)] = Resume(rest[Len(rest)], v)]
            /\ ret' = ret

Top == stack[Len(stack)]

\* One more step of a call that was in flight when the flag was set.
Stepped == IF trail.depth >= 0 THEN [trail EXCEPT !.steps = trail.steps + 1] ELSE trail

\* What is recorded when a top-level call is made: the flag, the call before
\* this one with the value it returned, and the cache as it is now.
AtEntry ==
  [NoTrail EXCEPT !.flagAtEntry = cancel, !.prevArg = parts, !.prevRet = ret,
                  !.cacheAtEntry = cache]

EvalInputs ==
  {<<>>,
   [k \in 1..MaxHeap |-> ((k * (k - 1)) \div 2)..(((k * (k + 1)) \div 2) - 1)],
   kayles(MaxKayles),
   <<{0, 1}, {2, 3}, {0, 2}, {1, 3}>>,
   <<{0, 3, 4}, {0, 1, 2}, {1, 2, 3, 4}>>,
   <<{2, 4, 5}, {1, 3, 5}, {0, 3, 4}, {0, 1, 2}>>}

MoveInputs == {kayles(3), <<{0, 2}, {1, 2}>>}

InitEval ==
  /\ input = <<>> /\ orig = <<>> /\ parts = <<>> /\ origParts = <<>>
  /\ GameIdle /\ EvalFresh /\ BuildIdle /\ NoTest

\* The caller builds the positions of the edge list E and asks for the nimber
\* of the multiset.
Query(E) ==
  /\ stack = <<>>
  /\ asked < MaxQueries
  /\ input' = E
  /\ \E ps \in {from_hyperedges(E)} : \E qs \in Orders(ps) :
       /\ parts' = qs
       /\ stack' = <<Frame(qs)>>
  /\ ret' = Running
  /\ asked' = asked + 1
  /\ trail' = AtEntry
  /\ UNCHANGED <<orig, origParts, cache, cancel>>
  /\ UNCHANGED gameVars /\ UNCHANGED buildVars /\ UNCHANGED test

\* The caller builds the position of E, removes the vertex labelled v from it
\* and asks for the nimber of the components that are left.
QueryMove(E, v) ==
  /\ stack = <<>>
  /\ asked < MaxQueries
  /\ input' = E
  /\ \E g \in Range(from_hyperedges(E)) :
       \E ps \in {with_nodes_removed(g, {n \in 0..(nr_nodes(g) - 1) : g.nodes[n + 1] = v})} :
         \E qs \in Orders(ps) :
           /\ parts' = qs
           /\ stack' = <<Frame(qs)>>
  /\ ret' = Running
  /\ asked' = asked + 1
  /\ trail' = AtEntry
  /\ UNCHANGED <<orig, origParts, cache, cancel>>
  /\ UNCHANGED gameVars /\ UNCHANGED buildVars /\ UNCHANGED test

\* The external canceller sets the flag; nothing ever clears it.
Cancel ==
  /\ ~cancel
  /\ cancel' = TRUE
  /\ trail' = IF stack # <<>>
                THEN [trail EXCEPT !.depth = Len(stack), !.steps = 0]
                ELSE trail
  /\ UNCHANGED <<cache, stack, ret, asked>>
  /\ UNCHANGED canonVars /\ UNCHANGED gameVars /\ UNCHANGED buildVars /\ UNCHANGED test

\* Entry of the call on top of the stack: the flag is read here and nowhere
\* else.
Enter ==
  /\ stack # <<>>
  /\ Top.pc = "entry"
  /\ \E r \in {EntryResult(Top, cancel)} :
       /\ trail' = [Stepped EXCEPT !.entryCancelled = cancel, !.entryResult = r]
       /\ CASE r = "none" ->
                 /\ Return(None)
                 /\ cache' = cache
            [] r = "zero" ->
                 /\ Return(Some(0))
                 /\ cache' = cache
            [] r = "hit" ->
                 /\ Return(Some(CachedNimber(Head(Top.arg))))
                 /\ cache' = cache
            [] r = "symmetric" ->
                 /\ Return(Some(0))
                 /\ cache' = Insert(cache, Head(Top.arg), 0)
            [] r = "sum" ->
                 /\ stack' = [stack EXCEPT ![Len(stack)].pc = "sum"]
                 /\ ret' = ret
                 /\ cache' = cache
            [] r = "mex" ->
                 /\ \E m \in {get_split_moves(Head(Top.arg))} :
                      stack' = [stack EXCEPT ![Len(stack)].pc = "mex",
                                             ![Len(stack)].moves = m]
                 /\ ret' = ret
                 /\ cache' = cache
  /\ UNCHANGED <<cancel, asked>>
  /\ UNCHANGED canonVars /\ UNCHANGED gameVars /\ UNCHANGED buildVars /\ UNCHANGED test

\* The call on top recurses on its next component or successor.
Call ==
  /\ stack # <<>>
  /\ \/ /\ Top.pc = "sum"
        /\ Top.i <= Len(Top.arg)
        /\ stack' = Append(stack, Frame(<<Top.arg[Top.i]>>))
     \/ /\ Top.pc = "mex"
        /\ Top.i <= Len(Top.moves)
        /\ stack' = Append(stack, Frame(Top.moves[Top.i]))
  /\ trail' = Stepped
  /\ UNCHANGED <<cache, cancel, ret, asked>>
  /\ UNCHANGED canonVars /\ UNCHANGED gameVars /\ UNCHANGED buildVars /\ UNCHANGED test

\* Every recursive call returned a number: the call returns the XOR (step 3),
\* or caches and returns the mex (step 4).
Finish ==
  /\ stack # <<>>
  /\ \/ /\ Top.pc = "sum"
        /\ Top.i > Len(Top.arg)
        /\ Return(Some(Top.acc))
        /\ cache' = cache
     \/ /\ Top.pc = "mex"
        /\ Top.i > Len(Top.moves)
        /\ Return(Some(Mex(Top.seen)))
        /\ cache' = Insert(cache, Head(Top.arg), Mex(Top.seen))
  /\ trail' = Stepped
  /\ UNCHANGED <<cancel, asked>>
  /\ UNCHANGED canonVars /\ UNCHANGED gameVars /\ UNCHANGED buildVars /\ UNCHANGED test

\* A recursive call returned none: the call returns none and leaves the cache
\* alone.
Propagate ==
  /\ stack # <<>>
  /\ Top.pc = "none"
  /\ Return(None)
  /\ trail' = Stepped
  /\ UNCHANGED <<cache, cancel, asked>>
  /\ UNCHANGED canonVars /\ UNCHANGED gameVars /\ UNCHANGED buildVars /\ UNCHANGED test

Next ==
  \/ \E E \in EvalInputs : Query(E)
  \/ \E E \in MoveInputs : \E v \in 0..(MaxLabel - 1) : QueryMove(E, v)
  \/ Cancel
  \/ Enter
  \/ Call
  \/ Finish
  \/ Propagate

Spec == InitEval /\ [][Next]_vars

(***************************************************************************)
(* Properties of the evaluator.                                            *)
(***************************************************************************)
\* The last top-level call has returned.
Done == stack = <<>> /\ ret.state = "done"

\* C7: a call on a multiset that returns a number returns the XOR of the
\* nimbers of its components (the values the cache holds for them), and 0 for
\* the empty multiset.
C7_XorComposition ==
  (Done /\ ret.some)
    => /\ \A i \in 1..Len(parts) : Cached(parts[i])
       /\ ret.nimber = XorOver([i \in 1..Len(parts) |-> CachedNimber(parts[i])], parts, 1)

\* Removing vertex 2 from [[0,2],[1,2]] left two single vertices of nimber 1,
\* and the call on the two of them returned 0.
C7_Witness ==
  /\ Done /\ ret.some
  /\ input = <<{0, 2}, {1, 2}>>
  /\ Len(parts) = 2
  /\ \A i \in 1..Len(parts) :
       nr_nodes(parts[i]) = 1 /\ Cached(parts[i]) /\ CachedNimber(parts[i]) = 1
  /\ ret.nimber = 0

C10_CacheCorrect ==
  /\ \A c \in cache : c.nimber = GrundyOf(c.key)
  /\ \A k \in 1..Len(stack) :
       (stack[k].pc = "none" /\ Len(stack[k].arg) = 1) => ~Cached(Head(stack[k].arg))

\* The number of copies of the position g in the list ps.
Copies(ps, g) == Cardinality({i \in 1..Len(ps) : ps[i] = g})

\* The two lists are the same multiset of positions.
SameMultiset(ps, qs) ==
  /\ Len(ps) = Len(qs)
  /\ \A i \in 1..Len(ps) : Copies(ps, ps[i]) = Copies(qs, ps[i])

\* The call that finished last asked for the multiset of the call before it,
\* that call returned a number, and the flag has never been set.
RepeatedQuery ==
  /\ Done /\ ~cancel
  /\ trail.prevRet.some
  /\ SameMultiset(parts, trail.prevArg)

\* C11: in a run without cancellation, a query for the multiset of the query
\* before it returns the same number and adds no entry to the cache, and no
\* step of the evaluator ever takes an entry out of the cache.
C11_CacheDeterminism ==
  [][/\ cache \subseteq cache'
     /\ RepeatedQuery' => /\ ret' = trail'.prevRet
                          /\ cache' = trail'.cacheAtEntry]_vars

\* A second query for a position whose first query had to run the mex
\* recursion and cache it has finished.
C11_Witness ==
  /\ RepeatedQuery
  /\ Len(parts) = 1
  /\ ret.nimber > 0
  /\ trail.entryResult = "hit"
  /\ Cardinality(cache) >= 3

\* The vertex sets that get_split_moves removes, in the order of its moves.
RepresentativeMasks(g) ==
  IF nr_nodes(g) = 0 THEN <<>>
  ELSE LET ep == get_edge_partitions(g)
       IN FlatMap([b \in 1..(Len(ep) - 1) |-> removal_masks(g, ep[b])], 1)

\* The calls on the stack that recurse on the successors of a position.
MexFrames == {i \in 1..Len(stack) : stack[i].pc = "mex"}

\* C12: every successor multiset of get_split_moves(H) has |nodes(H)| - |R|
\* vertices in all, R being the non-empty set removed, and the calls that are
\* recursing on successors at any one time number at most the vertices of the
\* multiset asked for.
C12_Termination ==
  /\ \A i \in MexFrames :
       LET H == Head(stack[i].arg)
           masks == RepresentativeMasks(H)
       IN /\ Len(stack[i].moves) = Len(masks)
          /\ \A k \in 1..Len(masks) :
               /\ masks[k] # {}
               /\ TotalNodes(stack[i].moves[k], 1) = nr_nodes(H) - Cardinality(masks[k])
               /\ TotalNodes(stack[i].moves[k], 1) < nr_nodes(H)
  /\ Cardinality(MexFrames) <= TotalNodes(parts, 1)

\* The recursion on a position of four vertices or more went three positions
\* deep.
C12_Witness ==
  /\ Len(parts) = 1
  /\ nr_nodes(Head(parts)) >= 4
  /\ Cardinality(MexFrames) >= 3
  /\ Len(stack[1].moves) >= 2

(***************************************************************************)
(* Construction from raw input: TakingGame::from_hyperesges on lists of    *)
(* index lists, from_hyperedges_with_nodes on edges with caller-supplied   *)
(* labels, a second run of the same build, and minus on a returned         *)
(* position.  A run makes one construction and one removal.                *)
(***************************************************************************)
\* Every list of at most MaxBuildEdges edges over the indices below
\* MaxBuildLabel (empty, repeated and nested edges included).
SmallInputs ==
  UNION {[1..n -> SUBSET (0..(MaxBuildLabel - 1))] : n \in 0..MaxBuildEdges}

LargerInputs ==
  {<<{1, 2, 3}, {1, 2, 3}, {1}, {2, 3}, {}>>,
   <<{3, 5, 28}>>,
   <<{1, 3}>>,
   <<{0, 1}, {2, 3}>>,
   <<{0, 1}, {2, 3, 4}>>,
   <<{0, 1}, {1, 2}, {3, 4, 5}>>,
   <<{4, 3}, {3, 2}, {4}, {2, 3}>>}

\* Inputs with an index that does not fit the 128 bits.
OverflowInputs ==
  {<<{BITS}>>, <<{0, BITS}>>, <<{1, BITS + 1}>>, <<{0, 1}, {1, BITS + 72}>>}

LabelLists ==
  {[i \in 1..n |-> 10 * i] : n \in 0..(MaxBuildLabel + 1)}
    \cup {<<0, 10, 0, 30>>, <<7, 7, 7>>}

InitBuild ==
  /\ input = <<>> /\ orig = <<>> /\ parts = <<>> /\ origParts = <<>>
  /\ GameIdle /\ EvalFresh /\ BuildIdle /\ NoTest

\* TakingGame::from_hyperesges(E), in a build with or without overflow checks.
Build(E) ==
  /\ call = "none"
  /\ input' = E
  /\ call' = "from_hyperesges"
  /\ labels' = <<>>
  /\ \E checked \in BOOLEAN :
       IF checked /\ \E i \in 1..Len(E) : shift_overflows(E[i])
         THEN /\ outcome' = "panic"
              /\ parts' = <<>>
         ELSE /\ outcome' = "ok"
              /\ \E ps \in {from_hyperesges(E)} : parts' \in Orders(ps)
  /\ UNCHANGED <<orig, origParts>>
  /\ UNCHANGED gameVars /\ UNCHANGED evalVars /\ UNCHANGED test

\* StructuredHypergraph::from_hyperedges_with_nodes(E, L) on bit sets E.
BuildWithNodes(E, L) ==
  /\ call = "none"
  /\ input' = E
  /\ call' = "from_hyperedges_with_nodes"
  /\ labels' = L
  /\ IF index_out_of_bounds(E, L)
       THEN /\ outcome' = "panic"
            /\ parts' = <<>>
       ELSE /\ outcome' = "ok"
            /\ \E ps \in {from_hyperedges_with_nodes(E, L)} : parts' \in Orders(ps)
  /\ UNCHANGED <<orig, origParts>>
  /\ UNCHANGED gameVars /\ UNCHANGED evalVars /\ UNCHANGED test

\* The same edge list is built a second time (Builder::build).
Again ==
  /\ call = "from_hyperesges"
  /\ outcome = "ok"
  /\ op = "none"
  /\ call' = "build"
  /\ orig' = input
  /\ origParts' = parts
  /\ \E ps \in {build(input)} : parts' \in Orders(ps)
  /\ UNCHANGED <<input, labels, outcome>>
  /\ UNCHANGED gameVars /\ UNCHANGED evalVars /\ UNCHANGED test

\* minus(R) on the k-th position the construction returned.
Remove(k, R) ==
  /\ outcome = "ok"
  /\ call # "build"
  /\ op = "none"
  /\ k \in 1..Len(parts)
  /\ R \subseteq 0..(nr_nodes(parts[k]) - 1)
  /\ pos' = parts[k]
  /\ \E ps \in {minus(parts[k], R)} : succ' \in Orders(ps)
  /\ removed' = R
  /\ op' = "minus"
  /\ UNCHANGED <<edge, sym, value>>
  /\ UNCHANGED canonVars /\ UNCHANGED evalVars /\ UNCHANGED buildVars /\ UNCHANGED test

NextBuild ==
  \/ \E E \in SmallInputs \cup LargerInputs \cup OverflowInputs : Build(E)
  \/ \E E \in SmallInputs \cup LargerInputs : \E L \in LabelLists : BuildWithNodes(E, L)
  \/ Again
  \/ \E k \in 1..MaxBuildEdges : \E R \in SUBSET (0..(MaxNodes - 1)) : Remove(k, R)

SpecBuild == InitBuild /\ [][NextBuild]_vars

(***************************************************************************)
(* Properties of the construction from raw input.                          *)
(***************************************************************************)
\* The original label of the input vertex v.
LabelOf(v) == IF call = "from_hyperedges_with_nodes" THEN labels[v + 1] ELSE v

UsedVertices == UNION Range(input)

\* A construction returned positions for an input whose indices fit the bit
\* set and whose used vertices carry labels that tell them apart.
Built ==
  /\ outcome = "ok"
  /\ \A i \in 1..Len(input) : ~shift_overflows(input[i])
  /\ \A v, w \in UsedVertices : v # w => LabelOf(v) # LabelOf(w)

\* Any two vertices of g are linked by a chain of edges: no proper part of the
\* vertices is closed under the edges.
Connected(g) ==
  /\ nr_nodes(g) > 0
  /\ \A S \in SUBSET (0..(nr_nodes(g) - 1)) :
       (S # {} /\ S # 0..(nr_nodes(g) - 1))
         => \E e \in Range(g.hyperedges) : e \cap S # {} /\ ~(e \subseteq S)

\* The places (component, index) of the list ps that carry the label l.
PlacesOf(ps, l) ==
  {pl \in (1..Len(ps)) \X (1..MaxNodes) :
     pl[2] <= nr_nodes(ps[pl[1]]) /\ ps[pl[1]].nodes[pl[2]] = l}

\* C13: every vertex of an input edge appears, by its original label, in
\* exactly one place of exactly one returned component; every component is
\* connected; no two components share a label, and every input edge lies
\* within one component.
C13_ExhaustiveSplit ==
  Built
    => /\ \A v \in UsedVertices : Cardinality(PlacesOf(parts, LabelOf(v))) = 1
       /\ \A i \in 1..Len(parts) : Connected(parts[i])
       /\ \A i, j \in 1..Len(parts) :
            i # j => Range(parts[i].nodes) \cap Range(parts[j].nodes) = {}
       /\ \A e \in Range(input) :
            e # {} => \E i \in 1..Len(parts) :
                        {LabelOf(v) : v \in e} \subseteq Range(parts[i].nodes)

\* An input of three edges was split into a chain of two edges and a single
\* edge.
C13_Witness ==
  /\ Built
  /\ Len(input) = 3
  /\ Len(parts) = 2
  /\ \E i \in 1..2 : nr_nodes(parts[i]) = 3 /\ Len(parts[i].hyperedges) = 2

\* No position of the list has an empty edge or an edge within another one.
NoRedundantEdges(ps) ==
  \A i \in 1..Len(ps) :
    \A a, b \in 1..Len(ps[i].hyperedges) :
      /\ ps[i].hyperedges[a] # {}
      /\ a # b => ~(ps[i].hyperedges[a] \subseteq ps[i].hyperedges[b])

\* C14: no position returned by from_hyperesges, from_hyperedges_with_nodes
\* or minus has an empty edge or an edge that is a subset of another of its
\* edges, and [[1,2,3],[1,2,3],[1],[2,3],[]] becomes the single edge {0,1,2}.
C14_NoRedundantEdges ==
  /\ outcome = "ok" => NoRedundantEdges(parts)
  /\ op = "minus" => NoRedundantEdges(succ)
  /\ (outcome = "ok" /\ input = <<{1, 2, 3}, {1, 2, 3}, {1}, {2, 3}, {}>>)
       => Len(parts) = 1 /\ Head(parts).hyperedges = <<{0, 1, 2}>>

\* A removal from a position that was built from nested, repeated and empty
\* edges left a component of one vertex: the input of five edges gave one
\* edge, and the two vertices taken out of its three left one.
C14_Witness ==
  /\ input = <<{1, 2, 3}, {1, 2, 3}, {1}, {2, 3}, {}>>
  /\ call = "from_hyperesges"
  /\ Len(parts) = 1
  /\ op = "minus"
  /\ Cardinality(removed) = 2
  /\ Len(succ) = 1 /\ Head(succ).hyperedges = <<{0}>>

\* The input of from_hyperesges uses an index outside [0, 128).
IndexTooLarge ==
  call = "from_hyperesges" /\ \E i \in 1..Len(input) : shift_overflows(input[i])

\* C15: a construction from an input that uses a vertex index outside
\* [0, 128) ends with the error TooLarge: it neither panics nor returns
\* positions in which the index stands for another bit.
C15_TooLarge ==
  IndexTooLarge => outcome = "TooLarge"

\* The node labels handed to from_hyperedges_with_nodes do not reach the
\* largest vertex index used in the edges.
LabelsTooShort ==
  call = "from_hyperedges_with_nodes" /\ \E v \in UsedVertices : v >= Len(labels)

\* C16: from_hyperedges_with_nodes ends with the error IllConfigured exactly
\* when the labels are shorter than the vertex indices of the edges require;
\* it does not panic, and no position it returns has fewer labels than
\* vertices.
C16_IllConfigured ==
  call = "from_hyperedges_with_nodes"
    => /\ outcome = "IllConfigured" <=> LabelsTooShort
       /\ outcome # "panic"
       /\ \A i \in 1..Len(parts) :
            Len(parts[i].nodes) >= Cardinality(UNION Range(parts[i].hyperedges))

\* C17: two executions of the construction on the same input return the same
\* positions in the same order, and build_one picks the same position from
\* both results.
C17_Deterministic ==
  (call = "build" /\ orig = input)
    => /\ parts = origParts
       /\ build_one(parts) = build_one(origParts)

\* The edge a of the component i of ps, written in original labels.
Translated(ps, i, a) == {ps[i].nodes[v + 1] : v \in ps[i].hyperedges[a]}

\* The edges of the components of ps, written in original labels.
TranslatedEdges(ps) ==
  UNION {{Translated(ps, i, a) : a \in 1..Len(ps[i].hyperedges)} : i \in 1..Len(ps)}

RECURSIVE TotalEdges(_, _)
TotalEdges(ps, i) ==
  IF i > Len(ps) THEN 0 ELSE Len(ps[i].hyperedges) + TotalEdges(ps, i + 1)

\* The non-empty sets of F that lie in no other set of F.
Maximal(F) == {e \in F : e # {} /\ \A f \in F : e \subseteq f => e = f}

\* Every position of ps has as many labels as vertices, and its edges use
\* exactly the indices below that number.
Flat(ps) ==
  \A i \in 1..Len(ps) :
    UNION Range(ps[i].hyperedges) = 0..(Len(ps[i].nodes) - 1)

\* C18: the canonical edges of the returned components, translated through
\* `nodes`, are exactly the inclusion-maximal non-empty edges of the input,
\* each once; every component has as many labels as vertices and uses the
\* indices 0..|nodes|-1; [[3,5,28]] gives the edge {0,1,2} with nodes
\* [3,5,28], and [[1,3]] with the labels [0,10,0,30] gives nodes [10,30].
C18_LabelRoundTrip ==
  Built
    => /\ TranslatedEdges(parts)
            = Maximal({{LabelOf(v) : v \in e} : e \in Range(input)})
       /\ TotalEdges(parts, 1) = Cardinality(TranslatedEdges(parts))
       /\ Flat(parts)
       /\ (input = <<{3, 5, 28}>> /\ call = "from_hyperesges")
            => /\ Len(parts) = 1
               /\ Head(parts).hyperedges = <<{0, 1, 2}>>
               /\ Head(parts).nodes = <<3, 5, 28>>
       /\ (input = <<{1, 3}>> /\ labels = <<0, 10, 0, 30>>)
            => Len(parts) = 1 /\ Head(parts).nodes = <<10, 30>>

\* Edges with gaps in their indices were built with labels of the caller's.
C18_Witness ==
  /\ Built
  /\ input = <<{1, 3}>>
  /\ labels = <<0, 10, 0, 30>>
  /\ Len(parts) = 1
  /\ Head(parts).hyperedges = <<{0, 1}>>
  /\ Head(parts).nodes = <<10, 30>>

\* The vertices of the position under removal that are not removed.
Kept == (0..(nr_nodes(pos) - 1)) \ removed

\* The index in pos of the vertex with the original label l.
IndexOf(l) == CHOOSE v \in 0..(nr_nodes(pos) - 1) : pos.nodes[v + 1] = l

\* The lists of labels of the positions of ps.
NodeLists(ps) == {ps[i].nodes : i \in 1..Len(ps)}

\* C19: minus(R) returns the canonical connected components of the position
\* with the vertices of R deleted from every edge: the labels carried by the
\* components are exactly those of the vertices not in R, each in one place;
\* the components are connected, canonical, and their edges are the maximal
\* non-empty remainders of the edges.  Removing the middle vertex of
\* [[0,1],[1,2]] leaves components with nodes [0] and [2]; removing vertex 2
\* of [[0,2],[1,2]] leaves two one-vertex components.
C19_MinusComponents ==
  (Built /\ op = "minus")
    => /\ UNION {Range(succ[i].nodes) : i \in 1..Len(succ)}
            = {pos.nodes[v + 1] : v \in Kept}
       /\ \A v \in Kept : Cardinality(PlacesOf(succ, pos.nodes[v + 1])) = 1
       /\ TotalNodes(succ, 1) = Cardinality(Kept)
       /\ \A i \in 1..Len(succ) : Connected(succ[i])
       /\ Flat(succ)
       /\ Recanonicalized(succ)
       /\ TranslatedEdges(succ)
            = Maximal({{pos.nodes[v + 1] : v \in e \ removed} : e \in Range(pos.hyperedges)})
       /\ TotalEdges(succ, 1) = Cardinality(TranslatedEdges(succ))
       /\ (input = <<{0, 1}, {1, 2}>> /\ call = "from_hyperesges" /\ removed = {IndexOf(1)})
            => Len(succ) = 2 /\ NodeLists(succ) = {<<0>>, <<2>>}
       /\ (input = <<{0, 2}, {1, 2}>> /\ call = "from_hyperesges" /\ removed = {IndexOf(2)})
            => /\ Len(succ) = 2
               /\ NodeLists(succ) = {<<0>>, <<1>>}
               /\ \A i \in 1..2 : succ[i].hyperedges = <<{0}>>

\* The middle vertex of [[0,1],[1,2]] was removed and two components with the
\* nodes [0] and [2] came back.
C19_Witness ==
  /\ Built /\ op = "minus"
  /\ input = <<{0, 1}, {1, 2}>>
  /\ call = "from_hyperesges"
  /\ removed = {IndexOf(1)}
  /\ Len(succ) = 2
  /\ NodeLists(succ) = {<<0>>, <<2>>}

\* No position of the list is without vertices or without edges.
NoEmptyPosition(ps) ==
  \A i \in 1..Len(ps) : nr_nodes(ps[i]) > 0 /\ ps[i].hyperedges # <<>>

InBlock(e, bs, b) == Cardinality({v \in e : bs[b] <= v /\ v < bs[b + 1]})

\* prod_i (|e /\ P_i| + 1) over the node blocks from b on.
RECURSIVE CountTuples(_, _, _)
CountTuples(e, bs, b) ==
  IF b >= Len(bs) THEN 1
  ELSE (InBlock(e, bs, b) + 1) * CountTuples(e, bs, b + 1)

\* The sum, over the first edges of the edge blocks from b on, of the number
\* of non-zero tuples of removal counts.
RECURSIVE CountEntries(_, _)
CountEntries(g, b) ==
  IF b >= Len(get_edge_partitions(g)) THEN 0
  ELSE CountTuples(g.hyperedges[get_edge_partitions(g)[b] + 1], get_node_partitions(g), 1) - 1
         + CountEntries(g, b + 1)

\* The position is the L-shape: two edges of two vertices with one in common.
IsLShape(g) == nr_nodes(g) = 3 /\ Len(g.hyperedges) = 2

\* C21: get_split_moves emits, for the first edge e of every edge block, one
\* entry per non-zero tuple of removal counts, prod_i (|e /\ P_i| + 1) - 1 of
\* them; a single edge of k vertices gives k entries and the L-shape gives
\* three entries with 1, 1 and 2 components.
C21_MoveCount ==
  op = "get_split_moves"
    => /\ Len(value) = CountEntries(pos, 1)
       /\ Len(pos.hyperedges) = 1 => Len(value) = nr_nodes(pos)
       /\ IsLShape(pos)
            => /\ Len(value) = 3
               /\ Cardinality({k \in 1..3 : Len(value[k]) = 1}) = 2
               /\ Cardinality({k \in 1..3 : Len(value[k]) = 2}) = 1

\* get_split_moves was asked for the L-shape and returned three entries.
C21_Witness ==
  /\ op = "get_split_moves"
  /\ IsLShape(pos)
  /\ Len(get_edge_partitions(pos)) = 2
  /\ Len(value) = 3

(***************************************************************************)
(* tests/nimber.rs: a test makes a fresh evaluator and asks it for the     *)
(* nimber of build_one() of each of its games in turn; nothing cancels.    *)
(***************************************************************************)
KAYLE_NIMBERS ==
  <<<<1, 1>>, <<2, 2>>, <<3, 3>>, <<4, 1>>, <<5, 4>>,
    <<7, 2>>, <<8, 1>>, <<9, 4>>, <<10, 2>>, <<15, 7>>>>

\* The entries of KAYLE_NIMBERS within the bound, in their order.
KayleEntries ==
  SubSeq(KAYLE_NIMBERS, 1,
         Cardinality({k \in 1..Len(KAYLE_NIMBERS) : KAYLE_NIMBERS[k][1] <= MaxTestKayles}))

unit_nimber == <<unit>>

heap_nimbers == [i \in 1..MaxTestHeap |-> heap(i)]

kayle_nimbers == [k \in 1..Len(KayleEntries) |-> kayles(KayleEntries[k][1])]

squares == [k \in 1..(MaxTestGrid - 1) |-> rect(k + 1, k + 1)]

KnownTests == {unit_nimber, heap_nimbers, kayle_nimbers, squares}

\* The games on which find_symmetry is tested, each with the answer the test
\* expects: TRUE for some mapping, FALSE for none.
SYMMETRY_GAMES ==
  <<<<rect(4, 8), TRUE>>, <<hyper_cube(2, 2), TRUE>>, <<hyper_cube(2, 4), TRUE>>,
    <<hyper_cube(4, 2), TRUE>>, <<hyper_cube(7, 2), TRUE>>,
    <<hyper_cube(2, 7), FALSE>>, <<hyper_cube(3, 3), FALSE>>,
    <<hyper_tetrahedron(15), FALSE>>,
    <<rect(3, 3), FALSE>>, <<rect(3, 4), FALSE>>, <<rect(5, 4), FALSE>>,
    <<hyper_cube(3, 2), TRUE>>>>

\* The ones within the bound, each a test of its own.
SymmetryEntries ==
  {k \in 1..Len(SYMMETRY_GAMES) : get_max_node(SYMMETRY_GAMES[k][1]) < MaxTestNodes}

SymmetryTests == {<<SYMMETRY_GAMES[k][1]>> : k \in SymmetryEntries}

InitKnown ==
  /\ input = <<>> /\ orig = <<>> /\ parts = <<>> /\ origParts = <<>>
  /\ GameIdle /\ EvalFresh /\ BuildIdle
  /\ test \in KnownTests \cup SymmetryTests

\* The test builds its next game, takes build_one() of it and asks for the
\* nimber of that position.
Ask ==
  /\ test \in KnownTests
  /\ stack = <<>>
  /\ asked < Len(test)
  /\ input' = test[asked + 1]
  /\ \E ps \in {build(test[asked + 1])} : \E qs \in Orders(ps) :
       \E g \in {build_one(qs)} :
         /\ parts' = g
         /\ stack' = <<Frame(g)>>
  /\ ret' = Running
  /\ asked' = asked + 1
  /\ trail' = AtEntry
  /\ UNCHANGED <<orig, origParts, cache, cancel, test>>
  /\ UNCHANGED gameVars /\ UNCHANGED buildVars

\* A test builds its game and asks for a symmetry of it.
AskSymmetry ==
  /\ test \in SymmetryTests
  /\ asked < Len(test)
  /\ input' = test[asked + 1]
  /\ \E ps \in {build(test[asked + 1])} : \E qs \in Orders(ps) :
       \E g \in {build_one(qs)} :
         /\ parts' = g
         /\ pos' = Head(g)
         /\ \E r \in {find_symmetry(Head(g))} : sym' = r
  /\ op' = "find_symmetry"
  /\ asked' = asked + 1
  /\ UNCHANGED <<edge, removed, succ, value>>
  /\ UNCHANGED <<orig, origParts, cache, cancel, stack, ret, trail, test>>
  /\ UNCHANGED buildVars

NextKnown ==
  \/ Ask
  \/ AskSymmetry
  \/ Enter
  \/ Call
  \/ Finish

SpecKnown == InitKnown /\ [][NextKnown]_vars

(***************************************************************************)
(* Properties of the known values.                                         *)
(***************************************************************************)
\* The evaluator has answered the question about the edge list E.
Answered(E) == Done /\ input = E

\* C22: the position of a single hyperedge of k vertices has nimber k.
C22_HeapNimber ==
  \A k \in 1..MaxTestHeap : Answered(heap(k)) => ret = Some(k)

\* The heap of MaxTestHeap tokens got its nimber from the mex over its
\* MaxTestHeap successors.
C22_Witness ==
  /\ Answered(heap(MaxTestHeap))
  /\ ret = Some(MaxTestHeap)
  /\ asked = MaxTestHeap
  /\ Cached(Head(parts))

\* The test heap_nimbers has had the answers to its first `asked` questions.
HeapsAnswered == test = heap_nimbers /\ Done

\* C23: after a fresh evaluator has computed the nimbers of the heaps 1..N
\* in ascending order its cache holds exactly N entries, one per heap; the
\* empty multiset has no entry.
C23_HeapCache ==
  HeapsAnswered
    => /\ Cardinality(cache) = asked
       /\ \A k \in 1..asked : \E c \in cache : c.key.hyperedges = heap(k) /\ c.nimber = k
       /\ \A c \in cache : c.key.hyperedges # <<>>

\* All the heaps of the test have been answered and the cache holds as many
\* entries.
C23_Witness ==
  /\ HeapsAnswered
  /\ asked = MaxTestHeap
  /\ Cardinality(cache) = MaxTestHeap

\* The Grundy values of Kayles with 0..n pins, by the rule of the game: a
\* throw takes one pin or two neighbouring pins and leaves two rows.
RECURSIVE KaylesValues(_)
KaylesValues(n) ==
  IF n = 0 THEN <<0>>
  ELSE LET t == KaylesValues(n - 1)
           one == {Xor(t[a + 1], t[n - a]) : a \in 0..(n - 1)}
           two == {Xor(t[a + 1], t[n - a - 1]) : a \in 0..(n - 2)}
       IN Append(t, Mex(one \cup two))

\* C24: the nimber computed for the Kayles chain on n vertices is the Grundy
\* value of Kayles with n pins, which is the value KAYLE_NIMBERS lists for n.
C24_KaylesNimber ==
  \E t \in {KaylesValues(MaxTestKayles)} :
    \A k \in 1..Len(KayleEntries) :
      LET n == KayleEntries[k][1]
      IN /\ t[n + 1] = KayleEntries[k][2]
         /\ Answered(kayles(n)) => ret = Some(t[n + 1])

\* The chain of nine vertices was answered with 4.
C24_Witness ==
  /\ test = kayle_nimbers
  /\ Answered(kayles(9))
  /\ ret = Some(4)

Symmetries(g) ==
  LET V == 0..(nr_nodes(g) - 1)
      E == Range(g.hyperedges)
  IN {s \in [V -> V] :
        /\ \A v \in V : s[v] # v /\ s[s[v]] = v
        /\ \A e \in E : \A v \in e : s[v] \notin e
        /\ \A e \in E : {s[v] : v \in e} \in E}

\* The sizes of the blocks of a partition given by its boundaries.
BlockSizes(bounds) == {bounds[b + 1] - bounds[b] : b \in 1..(Len(bounds) - 1)}

\* One of the four parity tests fails on g.
FailsParity(g) ==
  \/ nr_nodes(g) % 2 = 1
  \/ Len(g.hyperedges) % 2 = 1
  \/ \E n \in BlockSizes(get_node_partitions(g)) : n % 2 = 1
  \/ \E n \in BlockSizes(get_edge_partitions(g)) : n % 2 = 1

\* C27: on a position that fails one of the four parity tests find_symmetry
\* returns none, and no fixed-point-free involution of the position satisfies
\* the three conditions of a symmetry.
C27_QuickRejection ==
  (op = "find_symmetry" /\ FailsParity(pos))
    => /\ sym = NoSymmetry
       /\ Symmetries(pos) = {}

\* find_symmetry turned down a position with an even number of vertices and
\* of edges because of a block of odd size.
C27_Witness ==
  /\ op = "find_symmetry"
  /\ nr_nodes(pos) >= 4
  /\ nr_nodes(pos) % 2 = 0
  /\ Len(pos.hyperedges) % 2 = 0
  /\ FailsParity(pos)
  /\ sym = NoSymmetry

\* C28: get_max_nimber is 0 when find_symmetry returns a mapping and the
\* number of vertices otherwise (1 for the unit position), and the
\* Sprague-Grundy value of the position never exceeds it.
C28_MaxNimberBound ==
  op = "find_symmetry"
    => /\ get_max_nimber(pos) = (IF sym.found THEN 0 ELSE nr_nodes(pos))
       /\ pos.hyperedges = unit => get_max_nimber(pos) = 1
       /\ GrundyOf(pos) <= get_max_nimber(pos)

\* The positions constructed so far in the run: the ones built for the call
\* and the successors the call on top of the stack got from get_split_moves.
Constructed ==
  Range(parts)
    \cup (IF stack = <<>> THEN {}
          ELSE UNION {Range(Top.moves[k]) : k \in 1..Len(Top.moves)})

\* The boundaries cut 0..n-1 into contiguous non-empty ranges.
OrderedPartition(bounds, n) ==
  /\ Len(bounds) >= 2
  /\ bounds[1] = 0
  /\ bounds[Len(bounds)] = n
  /\ \A b \in 1..(Len(bounds) - 1) : bounds[b] < bounds[b + 1]

\* The partitions of g form a stable colouring: vertices of one block have the
\* same degree and as many edges in every edge block, edges of one block have
\* the same cardinality and as many vertices in every node block.
Equitable(g) ==
  LET E  == g.hyperedges
      np == get_node_partitions(g)
      ep == get_edge_partitions(g)
      V  == 0..(nr_nodes(g) - 1)
      J  == 1..Len(E)
      Degree(v) == Cardinality({j \in J : v \in E[j]})
      NodeProfile(v) ==
        [b \in 1..(Len(ep) - 1) |->
           Cardinality({j \in J : v \in E[j] /\ BlockOf(ep, j - 1) = b})]
      EdgeProfile(j) ==
        [b \in 1..(Len(np) - 1) |->
           Cardinality({v \in E[j] : BlockOf(np, v) = b})]
  IN /\ \A u, v \in V :
          BlockOf(np, u) = BlockOf(np, v)
            => Degree(u) = Degree(v) /\ NodeProfile(u) = NodeProfile(v)
     /\ \A i, j \in J :
          BlockOf(ep, i - 1) = BlockOf(ep, j - 1)
            => Cardinality(E[i]) = Cardinality(E[j]) /\ EdgeProfile(i) = EdgeProfile(j)

\* The hypergraphs get_parts hands to the sorter for the raw edges and labels.
SorterInputs(hyperedges, nodes) ==
  LET g   == remove_redundant_hyperedges(Hypergraph(hyperedges, nodes, <<>>, <<>>))
      es  == g.hyperedges
      cmp == [i \in 1..Len(es) |-> Reach(es, {MinOf(es[i])})]
      firsts == {i \in 1..Len(es) : \A j \in 1..(i - 1) : cmp[j] # cmp[i]}
      bucket(i) == iter({j \in 1..Len(es) : cmp[j] = cmp[i]})
  IN IF Cardinality(firsts) = 1 THEN {g}
     ELSE {flatten_nodes(Hypergraph([x \in 1..Len(bucket(f)) |-> es[bucket(f)[x]]],
                                    g.nodes, <<>>, <<>>)) : f \in firsts}

\* The sorter on h at the start of build_structural_eq_classes.
SorterAtStart(h) ==
  LET s == sorter_new(h)
  IN sort_nodes(sort_edges(
       [s EXCEPT !.hypergraph.edge_structure_partitions = <<0, Len(h.hyperedges)>>,
                 !.hypergraph.node_structure_partitions = <<0, Len(h.nodes)>>]))

\* The blocks of a partition as sets of elements.
Blocks(bounds, perm) ==
  {{perm[i] : i \in (bounds[b] + 1)..bounds[b + 1]} : b \in 1..(Len(bounds) - 1)}

Refines(P, Q) == \A X \in P : \E Y \in Q : X \subseteq Y

NodeBlocks(s) == Blocks(s.hypergraph.node_structure_partitions, s.node_map)

EdgeBlocks(s) == Blocks(s.hypergraph.edge_structure_partitions, s.edge_map)

\* Every round of build_structural_eq_classes from s on only splits blocks.
RECURSIVE OnlySplits(_)
OnlySplits(s) ==
  LET t == RefineRound(s)
  IN /\ Refines(NodeBlocks(t), NodeBlocks(s))
     /\ Refines(EdgeBlocks(t), EdgeBlocks(s))
     /\ partition_count(s) = partition_count(t) \/ OnlySplits(t)

\* The number of rounds of build_structural_eq_classes from s on.
RECURSIVE Rounds(_)
Rounds(s) ==
  LET t == RefineRound(s)
  IN IF partition_count(s) = partition_count(t) THEN 1 ELSE 1 + Rounds(t)

\* The hypergraphs the sorter was run on for the positions constructed so far.
Sorted ==
  (IF input = <<>> THEN {}
   ELSE SorterInputs(input, [i \in 1..(get_max_node(input) + 1) |-> i - 1]))
    \cup (IF stack # <<>> /\ Top.pc = "mex"
            THEN LET H == Head(Top.arg)
                     masks == RepresentativeMasks(H)
                 IN UNION {SorterInputs([i \in 1..Len(H.hyperedges) |->
                                           H.hyperedges[i] \ masks[k]], H.nodes) :
                             k \in 1..Len(masks)}
            ELSE {})

\* C29: in every constructed position the node and edge partitions cut the
\* indices into contiguous non-empty ranges and form a stable colouring of the
\* incidence structure, and no round of the refinement merges blocks.
C29_StablePartitions ==
  /\ \A g \in Constructed :
       /\ OrderedPartition(get_node_partitions(g), nr_nodes(g))
       /\ OrderedPartition(get_edge_partitions(g), Len(g.hyperedges))
       /\ Equitable(g)
  /\ \A h \in Sorted : OnlySplits(SorterAtStart(h))

\* The chain of seven vertices was built: its four blocks of vertices and
\* three blocks of edges took more than two rounds of refinement.
C29_Witness ==
  /\ input = kayles(7)
  /\ Len(parts) = 1
  /\ Len(get_node_partitions(Head(parts))) = 5
  /\ Len(get_edge_partitions(Head(parts))) = 4
  /\ Equitable(Head(parts))
  /\ \A h \in SorterInputs(input, [i \in 1..7 |-> i - 1]) : Rounds(SorterAtStart(h)) >= 3

\* The number of vertices of R in every block of the partition bs.
Profile(R, bs) == [b \in 1..(Len(bs) - 1) |-> InBlock(R, bs, b)]

\* C30: every entry of get_split_moves(H) is H.minus(R) for a non-empty R
\* inside one hyperedge of H; the empty removal is not among the entries, and
\* on each representative edge every tuple of removal counts but the all-zero
\* one is played exactly once.
C30_LegalMoves ==
  op = "get_split_moves"
    => LET np == get_node_partitions(pos)
           ep == get_edge_partitions(pos)
       IN /\ \A k \in 1..Len(value) :
               /\ \E e \in Range(pos.hyperedges) : \E R \in (SUBSET e) \ {{}} :
                    SameComponents(value[k], minus(pos, R))
               /\ value[k] # <<pos>>
               /\ TotalNodes(value[k], 1) < nr_nodes(pos)
          /\ nr_nodes(pos) > 0 =>
               \A b \in 1..(Len(ep) - 1) :
                 LET e  == pos.hyperedges[ep[b] + 1]
                     ms == removal_masks(pos, ep[b])
                 IN /\ \A k \in 1..Len(ms) : ms[k] # {} /\ ms[k] \subseteq e
                    /\ \A j, k \in 1..Len(ms) :
                         j # k => Profile(ms[j], np) # Profile(ms[k], np)
                    /\ Len(ms) = CountTuples(e, np, 1) - 1

\* get_split_moves was asked for a position with an edge that meets two node
\* blocks and returned five entries or more.
C30_Witness ==
  /\ op = "get_split_moves"
  /\ Len(value) >= 5
  /\ Len(get_edge_partitions(pos)) >= 3
  /\ \E e \in Range(pos.hyperedges) :
       Cardinality({b \in 1..(Len(get_node_partitions(pos)) - 1) :
                      InBlock(e, get_node_partitions(pos), b) > 0}) >= 2

====
